---- MODULE Spec2Model ----
(***************************************************************************)
(* A model of cs231n/classifiers/neural_net.py: the parameter initializer  *)
(* init_two_layer_model and the forward / loss / backward routine          *)
(* two_layer_net (affine - ReLU - affine - softmax).                       *)
(*                                                                         *)
(* Numbers.  The program computes in IEEE-754 binary64.  The model keeps   *)
(* the values that decide the program's behaviour:                         *)
(*   - a finite value is an exact rational <<n, d>>, d > 0, in lowest      *)
(*     terms (rounding to 53 bits is not modelled);                        *)
(*   - <<1, 0>>, <<-1, 0>> and <<0, 0>> are +inf, -inf and NaN, produced   *)
(*     where binary64 produces them: np.exp overflows to +inf for an       *)
(*     argument >= 710 and underflows to 0 for an argument <= -746, and    *)
(*     x/0, inf/inf, log(0), log(x < 0) follow IEEE-754;                   *)
(*   - np.exp of a finite integer score s in between is the power 2^s: e   *)
(*     is irrational, so e^s has no exact representation; every use of     *)
(*     exp in the program needs only exp > 0, exp(0) = 1 and               *)
(*     exp(a + b) = exp(a) * exp(b), which the power of two keeps;         *)
(*   - np.log of a finite p > 0 is kept symbolic (see LVal below).         *)
(*                                                                         *)
(* Arrays are objects of a heap; a local name of the routine is bound to   *)
(* an object, so that two names bound to one object (dscores and           *)
(* class_probs) see each other's in-place writes.                          *)
(***************************************************************************)
EXTENDS Integers, Sequences, FiniteSets, TLC

(***************************************************************************)
(* binary64 values                                                         *)
(***************************************************************************)
PosInf == <<1, 0>>
NegInf == <<-1, 0>>
NaN == <<0, 0>>
Zero == <<0, 1>>
One == <<1, 1>>
Half == <<1, 2>>

Abs(n) == IF n < 0 THEN -n ELSE n

Sign(n) == IF n < 0 THEN -1 ELSE IF n = 0 THEN 0 ELSE 1

RECURSIVE GCD(_, _)
GCD(a, b) == IF b = 0 THEN a ELSE GCD(b, a % b)

\* the rational n/d (d # 0) in lowest terms with a positive denominator
Rat(n, d) ==
  LET g == GCD(Abs(n), Abs(d))
      s == IF d < 0 THEN -1 ELSE 1
  IN  <<s * (n \div g), Abs(d) \div g>>

OfInt(n) == <<n, 1>>

IsNaN(a) == a[2] = 0 /\ a[1] = 0
IsInf(a) == a[2] = 0 /\ a[1] # 0
IsFinite(a) == a[2] # 0

\* a + b
Add(a, b) ==
  IF IsNaN(a) \/ IsNaN(b) THEN NaN
  ELSE IF IsInf(a) /\ IsInf(b) THEN (IF a = b THEN a ELSE NaN)
  ELSE IF IsInf(a) THEN a
  ELSE IF IsInf(b) THEN b
  ELSE LET g == GCD(a[2], b[2])
           l == (a[2] \div g) * b[2]
       IN  Rat(a[1] * (l \div a[2]) + b[1] * (l \div b[2]), l)

Neg(a) == <<-a[1], a[2]>>

Sub(a, b) == Add(a, Neg(b))

\* a * b
Mul(a, b) ==
  IF IsNaN(a) \/ IsNaN(b) THEN NaN
  ELSE IF IsInf(a) \/ IsInf(b)
       THEN (IF a[1] = 0 \/ b[1] = 0 THEN NaN
             ELSE <<Sign(a[1]) * Sign(b[1]), 0>>)
  ELSE LET g1 == GCD(Abs(a[1]), b[2])
           g2 == GCD(Abs(b[1]), a[2])
       IN  Rat((a[1] \div g1) * (b[1] \div g2), (a[2] \div g2) * (b[2] \div g1))

\* a / b: x/0 is +-inf, 0/0 and inf/inf are NaN, x/inf is 0
Div(a, b) ==
  IF IsNaN(a) \/ IsNaN(b) THEN NaN
  ELSE IF IsInf(a) THEN (IF IsInf(b) THEN NaN
                         ELSE IF b[1] < 0 THEN Neg(a) ELSE a)
  ELSE IF IsInf(b) THEN Zero
  ELSE IF b[1] = 0 THEN <<Sign(a[1]), 0>>
  ELSE Mul(a, Rat(b[2], b[1]))

\* a <= b on finite values
LeqFin(a, b) == a[1] * b[2] <= b[1] * a[2]

\* a <= 0 (a comparison with NaN is False)
LeqZero(a) == ~IsNaN(a) /\ a[1] <= 0

\* np.maximum(0, a) (NaN propagates)
Max0(a) == IF IsNaN(a) THEN NaN ELSE IF a[1] < 0 THEN Zero ELSE a

\* np.exp on binary64: overflow and underflow thresholds of an integer argument
ExpOverflowAt == 710
ExpUnderflowAt == -746

Exp(a) ==
  IF IsNaN(a) THEN NaN
  ELSE IF a = PosInf THEN PosInf
  ELSE IF a = NegInf THEN Zero
  ELSE IF a[1] >= ExpOverflowAt * a[2] THEN PosInf
  ELSE IF a[1] <= ExpUnderflowAt * a[2] THEN Zero
  ELSE CASE a[2] = 1 /\ a[1] >= 0 -> <<2 ^ a[1], 1>>
         [] a[2] = 1 /\ a[1] < 0 -> <<1, 2 ^ (-a[1])>>

(***************************************************************************)
(* Values with logarithms.  An LVal [rat, logs, div] stands for            *)
(*     rat + (sum over p in logs of -ln p) / div                           *)
(* with rat a binary64 value and logs a sequence of finite rationals p,    *)
(* 0 < p, p # 1.  When rat is not finite the value is rat and logs is      *)
(* empty.                                                                  *)
(***************************************************************************)
LRat(r) == [rat |-> r, logs |-> <<>>, div |-> 1]

\* -np.log(p): log(NaN) = log(p < 0) = NaN, log(0) = -inf, log(inf) = inf
NegLog(p) ==
  IF IsNaN(p) \/ p[1] < 0 THEN LRat(NaN)
  ELSE IF p = PosInf THEN LRat(NegInf)
  ELSE IF p[1] = 0 THEN LRat(PosInf)
  ELSE IF p = One THEN LRat(Zero)
  ELSE [rat |-> Zero, logs |-> <<p>>, div |-> 1]

\* a + b for LVals of one divisor
LAdd(a, b) ==
  LET r == Add(a.rat, b.rat)
  IN  IF IsFinite(r) THEN [rat |-> r, logs |-> a.logs \o b.logs, div |-> a.div]
      ELSE LRat(r)

\* a / n for a positive integer n
LDivInt(a, n) ==
  IF a.logs = <<>> THEN LRat(Div(a.rat, OfInt(n)))
  ELSE [rat |-> Div(a.rat, OfInt(n)), logs |-> a.logs, div |-> a.div * n]

\* a + r for a binary64 value r
LAddRat(a, r) ==
  LET s == Add(a.rat, r)
  IN  IF IsFinite(s) THEN [a EXCEPT !.rat = s] ELSE LRat(s)

\* a >= 0: every -ln p with p <= 1 is >= 0
LNonNeg(a) ==
  /\ ~IsNaN(a.rat)
  /\ a.rat # NegInf
  /\ a.rat[1] >= 0
  /\ \A i \in 1..Len(a.logs) : LeqFin(a.logs[i], One)

(***************************************************************************)
(* numpy arrays: a vector is a sequence of values, a matrix a sequence of  *)
(* rows                                                                    *)
(***************************************************************************)
Rows(M) == Len(M)
Cols(M) == Len(M[1])

\* an array object: its number of axes and its values
Vec(v) == [ndim |-> 1, v |-> v]
Mat(M) == [ndim |-> 2, v |-> M]

\* a.shape
Shape(a) == IF a.ndim = 1 THEN <<Len(a.v)>> ELSE <<Rows(a.v), Cols(a.v)>>

\* s[1] + ... + s[n], from the left
RECURSIVE SumUpTo(_, _)
SumUpTo(s, n) == IF n = 0 THEN Zero ELSE Add(SumUpTo(s, n - 1), s[n])

\* the sum of a sequence (s is bound as the element of a set, so that it is
\* evaluated once)
SumSeq(s) == CHOOSE r \in {SumUpTo(v, Len(v)) : v \in {s}} : TRUE

\* np.dot(A, B) of an (n,k) and a (k,m) matrix
Dot(A, B) ==
  [i \in 1..Rows(A) |->
    [j \in 1..Cols(B) |-> SumSeq([k \in 1..Cols(A) |-> Mul(A[i][k], B[k][j])])]]

\* A.T
Transpose(A) == [j \in 1..Cols(A) |-> [i \in 1..Rows(A) |-> A[i][j]]]

\* A + v, the vector v broadcast over the rows of A
AddRowVec(A, v) == [i \in 1..Rows(A) |-> [j \in 1..Cols(A) |-> Add(A[i][j], v[j])]]

\* A + B, elementwise
AddMat(A, B) == [i \in 1..Rows(A) |-> [j \in 1..Cols(A) |-> Add(A[i][j], B[i][j])]]

\* A * B, elementwise
MulMat(A, B) == [i \in 1..Rows(A) |-> [j \in 1..Cols(A) |-> Mul(A[i][j], B[i][j])]]

\* r * A for a scalar r
Scale(r, A) == [i \in 1..Rows(A) |-> [j \in 1..Cols(A) |-> Mul(r, A[i][j])]]

\* A / r for a scalar r
DivScalar(A, r) == [i \in 1..Rows(A) |-> [j \in 1..Cols(A) |-> Div(A[i][j], r)]]

\* np.maximum(0, A)
Maximum0(A) == [i \in 1..Rows(A) |-> [j \in 1..Cols(A) |-> Max0(A[i][j])]]

\* np.exp(A)
ExpMat(A) == [i \in 1..Rows(A) |-> [j \in 1..Cols(A) |-> Exp(A[i][j])]]

\* np.sum(A)
SumAll(A) == SumSeq([i \in 1..Rows(A) |-> SumSeq(A[i])])

\* np.sum(A, axis=0): the column sums, a vector
SumAxis0(A) == [j \in 1..Cols(A) |-> SumSeq([i \in 1..Rows(A) |-> A[i][j]])]

\* np.sum(A, axis=1, keepdims=True): the row sums, one per row
SumAxis1(A) == [i \in 1..Rows(A) |-> SumSeq(A[i])]

\* A / np.sum(A, axis=1, keepdims=True): each row divided by its sum
DivRows(A, s) == [i \in 1..Rows(A) |-> [j \in 1..Cols(A) |-> Div(A[i][j], s[i])]]

(***************************************************************************)
(* Index arrays.  A[range(n), y] pairs row i with column y[i]; numpy takes *)
(* an index j of an axis of length c when -c <= j < c, a negative j        *)
(* counting from the end, and raises IndexError otherwise.                 *)
(***************************************************************************)
\* a bug: a negative index refused
IndexOkNonNegative(j, c) == 0 <= j /\ j < c

IndexOk(j, c) == -c <= j /\ j < c

\* the 1-based column of the model for numpy's index j
ColumnOf(j, c) == IF j < 0 THEN j + c + 1 ELSE j + 1

IndexAllOk(y, c) == \A i \in 1..Len(y) : IndexOk(y[i], c)

\* A[range(n), y]
TakeAt(A, y) == [i \in 1..Rows(A) |-> A[i][ColumnOf(y[i], Cols(A))]]

\* A[range(n), y] -= 1, on the array itself
SubOneAt(A, y) ==
  [i \in 1..Rows(A) |->
    [j \in 1..Cols(A) |->
      IF j = ColumnOf(y[i], Cols(A)) THEN Sub(A[i][j], One) ELSE A[i][j]]]

\* a bug: the gate with < in place of <=, A[B < 0] = 0
ZeroWhereLtZero(A, B) ==
  [i \in 1..Rows(A) |->
    [j \in 1..Cols(A) |-> IF ~IsNaN(B[i][j]) /\ B[i][j][1] < 0 THEN Zero ELSE A[i][j]]]

\* A[B <= 0] = 0, on the array itself
ZeroWhereLeqZero(A, B) ==
  [i \in 1..Rows(A) |->
    [j \in 1..Cols(A) |-> IF LeqZero(B[i][j]) THEN Zero ELSE A[i][j]]]

(***************************************************************************)
(* The frame of a call of two_layer_net: the heap of array objects, the    *)
(* binding of each local name to an object, the model dictionary (key to   *)
(* object), the arguments y and reg, the local loss and the outcome ret    *)
(* (of kind "None" while the call runs).  Python's None is the empty       *)
(* tuple: a label vector has N >= 1 entries.                               *)
(***************************************************************************)
None == <<>>
NoReturn == [kind |-> "None"]

\* the object a local name is bound to, and its values
Obj(f, name) == f.heap[f.env[name]]
Val(f, name) == f.heap[f.env[name]].v

\* name = <a new array>
Alloc(f, name, a) ==
  [f EXCEPT !.heap = (name :> a) @@ f.heap, !.env = (name :> name) @@ f.env]

\* name = other: the name is bound to the object of the other name, no copy
Alias(f, name, other) == [f EXCEPT !.env = (name :> f.env[other]) @@ f.env]

\* an in-place update of the object the name is bound to
Store(f, name, v) == [f EXCEPT !.heap[f.env[name]].v = v]

\* the frame at entry: X and model are the caller's objects
EnterCall(heap, model, y, reg) ==
  [heap |-> heap, env |-> ("X" :> "X"), model |-> model,
   y |-> y, reg |-> reg, loss |-> None, ret |-> NoReturn]

\* W1,b1,W2,b2 = model['W1'], model['b1'], model['W2'], model['b2']
Unpack(f) ==
  [f EXCEPT !.env = [k \in {"W1", "b1", "W2", "b2"} |-> f.model[k]] @@ f.env]

\* a bug: the ReLU is left out
ForwardHiddenNoRelu(f) ==
  Alloc(f, "hidden_layer_scores",
        Mat(AddRowVec(Dot(Val(f, "X"), Val(f, "W1")), Val(f, "b1"))))

\* hidden_layer_scores = np.maximum(0, np.dot(X, W1) + b1)
ForwardHidden(f) ==
  Alloc(f, "hidden_layer_scores",
        Mat(Maximum0(AddRowVec(Dot(Val(f, "X"), Val(f, "W1")), Val(f, "b1")))))

\* scores = np.dot(hidden_layer_scores, W2) + b2
ForwardScores(f) ==
  Alloc(f, "scores",
        Mat(AddRowVec(Dot(Val(f, "hidden_layer_scores"), Val(f, "W2")), Val(f, "b2"))))

\* the forward pass
Forward(f) == ForwardScores(ForwardHidden(Unpack(f)))

\* if y is None: return scores
ReturnScores(f) ==
  IF f.y = None THEN [f EXCEPT !.ret = [kind |-> "scores", scores |-> Obj(f, "scores")]]
  ELSE f

\* cross_entropy_loss = np.exp(scores); class_probs = each row over its sum
Softmax(f) ==
  LET f1 == Alloc(f, "cross_entropy_loss", Mat(ExpMat(Val(f, "scores"))))
      e == Val(f1, "cross_entropy_loss")
  IN  Alloc(f1, "class_probs", Mat(DivRows(e, SumAxis1(e))))

\* correct_probs = -np.log(class_probs[range(num_train), y])
CorrectProbs(f) == [i \in 1..Len(f.y) |-> NegLog(TakeAt(Val(f, "class_probs"), f.y)[i])]

\* np.sum of a vector of LVals, from the left
RECURSIVE LSumUpTo(_, _)
LSumUpTo(s, n) == IF n = 0 THEN LRat(Zero) ELSE LAdd(LSumUpTo(s, n - 1), s[n])

LSum(s) == CHOOSE r \in {LSumUpTo(v, Len(v)) : v \in {s}} : TRUE

\* a bug: the factor 0.5 left out
RegLossNoHalf(reg, W) == Mul(reg, SumAll(MulMat(W, W)))

\* 0.5 * reg * np.sum(W * W)
RegLoss(reg, W) == Mul(Mul(Half, reg), SumAll(MulMat(W, W)))

\* np.sum(correct_probs) / num_train
DataLoss(f) == LDivInt(LSum(CorrectProbs(f)), Rows(Val(f, "X")))

\* the loss: the mean of correct_probs, plus the regularization of W1 and of W2;
\* the index array y raises IndexError when a label is out of range
Loss(f) ==
  IF ~IndexAllOk(f.y, Cols(Val(f, "class_probs")))
  THEN [f EXCEPT !.ret = [kind |-> "raise", exc |-> "IndexError"]]
  ELSE [f EXCEPT !.loss =
          LAddRat(LAddRat(DataLoss(f), RegLoss(f.reg, Val(f, "W1"))),
                  RegLoss(f.reg, Val(f, "W2")))]

\* dscores = class_probs; dscores[range(num_train),y] -= 1; dscores /= num_train
Dscores(f) ==
  LET f1 == Alias(f, "dscores", "class_probs")
  IN  IF ~IndexAllOk(f1.y, Cols(Val(f1, "dscores")))
      THEN [f1 EXCEPT !.ret = [kind |-> "raise", exc |-> "IndexError"]]
      ELSE LET f2 == Store(f1, "dscores", SubOneAt(Val(f1, "dscores"), f1.y))
           IN  Store(f2, "dscores",
                     DivScalar(Val(f2, "dscores"), OfInt(Rows(Val(f2, "X")))))

\* a bug: db2 summed along the wrong axis, np.sum(dscores, axis=1)
BackpropW2SumAxis1(f) ==
  LET f1 == Alloc(f, "dW2",
                  Mat(Dot(Transpose(Val(f, "hidden_layer_scores")), Val(f, "dscores"))))
  IN  Alloc(f1, "db2", Vec(SumAxis1(Val(f1, "dscores"))))

\* dW2 = np.dot(hidden_layer_scores.T, dscores); db2 = np.sum(dscores, axis=0)
BackpropW2(f) ==
  LET f1 == Alloc(f, "dW2",
                  Mat(Dot(Transpose(Val(f, "hidden_layer_scores")), Val(f, "dscores"))))
  IN  Alloc(f1, "db2", Vec(SumAxis0(Val(f1, "dscores"))))

\* dHidden = np.dot(dscores, W2.T); dHidden[hidden_layer_scores <= 0] = 0
BackpropHidden(f) ==
  LET f1 == Alloc(f, "dHidden", Mat(Dot(Val(f, "dscores"), Transpose(Val(f, "W2")))))
  IN  Store(f1, "dHidden",
            ZeroWhereLeqZero(Val(f1, "dHidden"), Val(f1, "hidden_layer_scores")))

\* dW1 = np.dot(X.T, dHidden); db1 = np.sum(dHidden, axis=0)
BackpropW1(f) ==
  LET f1 == Alloc(f, "dW1", Mat(Dot(Transpose(Val(f, "X")), Val(f, "dHidden"))))
  IN  Alloc(f1, "db1", Vec(SumAxis0(Val(f1, "dHidden"))))

\* a bug: the operands swapped, W2 += reg * dW2; W1 += reg * dW1
RegularizeWeights(f) ==
  LET f1 == Store(f, "W2", AddMat(Val(f, "W2"), Scale(f.reg, Val(f, "dW2"))))
  IN  Store(f1, "W1", AddMat(Val(f1, "W1"), Scale(f1.reg, Val(f1, "dW1"))))

\* dW2 += reg * W2; dW1 += reg * W1
Regularize(f) ==
  LET f1 == Store(f, "dW2", AddMat(Val(f, "dW2"), Scale(f.reg, Val(f, "W2"))))
  IN  Store(f1, "dW1", AddMat(Val(f1, "dW1"), Scale(f1.reg, Val(f1, "W1"))))

\* grads['W1'] = dW1; ...; return loss, grads
ReturnLossGrads(f) ==
  [f EXCEPT !.ret = [kind |-> "loss_grads", loss |-> f.loss,
                     grads |-> [W1 |-> Obj(f, "dW1"), b1 |-> Obj(f, "db1"),
                                W2 |-> Obj(f, "dW2"), b2 |-> Obj(f, "db2")]]]

\* a bug: the loss computed after the in-place updates of dscores
ProgramLossAfterDscores ==
  <<"Forward", "ReturnScores", "Softmax", "Dscores", "Loss", "BackpropW2",
    "BackpropHidden", "BackpropW1", "Regularize", "ReturnLossGrads">>

\* the statements of two_layer_net in the order of the source
Program ==
  <<"Forward", "ReturnScores", "Softmax", "Loss", "Dscores", "BackpropW2",
    "BackpropHidden", "BackpropW1", "Regularize", "ReturnLossGrads">>

Exec(stmt, f) ==
  CASE stmt = "Forward" -> Forward(f)
    [] stmt = "ReturnScores" -> ReturnScores(f)
    [] stmt = "Softmax" -> Softmax(f)
    [] stmt = "Loss" -> Loss(f)
    [] stmt = "Dscores" -> Dscores(f)
    [] stmt = "BackpropW2" -> BackpropW2(f)
    [] stmt = "BackpropHidden" -> BackpropHidden(f)
    [] stmt = "BackpropW1" -> BackpropW1(f)
    [] stmt = "Regularize" -> Regularize(f)
    [] stmt = "ReturnLossGrads" -> ReturnLossGrads(f)

\* the call run from statement i to its return or its exception (each frame is
\* bound as the element of a set, so that it is evaluated once)
RECURSIVE RunFrom(_, _)
RunFrom(i, f) ==
  IF f.ret.kind # "None" \/ i > Len(Program) THEN f
  ELSE CHOOSE r \in {RunFrom(i + 1, g) : g \in {Exec(Program[i], f)}} : TRUE

\* two_layer_net(X, model, y, reg): the frame at the end of the call
two_layer_net(heap, model, y, reg) ==
  CHOOSE r \in {RunFrom(1, f) : f \in {EnterCall(heap, model, y, reg)}} : TRUE

(***************************************************************************)
(* The caller's inputs.  The arrays X, W1, b1, W2, b2 of a shape (N,D,H,C) *)
(* are cut, one after the other, from a tape of integer values read        *)
(* cyclically (the way np.arange(..).reshape(..) lays a ramp into arrays); *)
(* every tape over the values -1, 0, 1 is tried.  One column of b2 may     *)
(* carry a score so large or so small that np.exp leaves the finite range. *)
(* The same tape is the stream of standard normal draws np.random.randn    *)
(* consumes in init_two_layer_model.                                       *)
(***************************************************************************)
MaxN == 2
MaxD == 1
MaxH == 2
MaxC == 2
MaxTape == 3
MaxReg == 1
MaxScore == 2
BigScore == 1000

TapeVals == {-1, 0, 1}
Tapes == [1..MaxTape -> TapeVals]
Shapes == (1..MaxN) \X (1..MaxD) \X (1..MaxH) \X (1..MaxC)
Boosts == {-BigScore, 0, BigScore}

\* the k-th value (k >= 0) of the tape, read cyclically
TapeAt(t, k) == OfInt(t[(k % MaxTape) + 1])

\* an (r,c) matrix and an n-vector cut from the tape at an offset
CutMat(t, off, r, c) == [i \in 1..r |-> [j \in 1..c |-> TapeAt(t, off + (i - 1) * c + (j - 1))]]
CutVec(t, off, n) == [j \in 1..n |-> TapeAt(t, off + j - 1)]

\* b2 with the boost added to its first entry
Boosted(v, boost) == [j \in 1..Len(v) |-> IF j = 1 THEN Add(v[j], OfInt(boost)) ELSE v[j]]

InputHeap(t, sh, boost) ==
  LET N == sh[1]
      D == sh[2]
      H == sh[3]
      C == sh[4]
  IN  [X |-> Mat(CutMat(t, 0, N, D)),
       W1 |-> Mat(CutMat(t, N * D, D, H)),
       b1 |-> Vec(CutVec(t, N * D + D * H, H)),
       W2 |-> Mat(CutMat(t, N * D + D * H + H, H, C)),
       b2 |-> Vec(Boosted(CutVec(t, N * D + D * H + H + H * C, C), boost))]

\* the model dictionary: each key is bound to its array object
ModelDict == [W1 |-> "W1", b1 |-> "b1", W2 |-> "W2", b2 |-> "b2"]

\* the scores of the inputs stay where the powers of two are representable, or
\* leave the finite range of np.exp
ScoreInRange(s) ==
  \/ Abs(s[1]) <= MaxScore * s[2]
  \/ s[1] >= ExpOverflowAt * s[2]
  \/ s[1] <= ExpUnderflowAt * s[2]

ScoresInRange(heap) ==
  LET sc == two_layer_net(heap, ModelDict, None, Zero).ret.scores.v
  IN  \A i \in 1..Rows(sc) : \A j \in 1..Cols(sc) : ScoreInRange(sc[i][j])

\* the label arguments of a call: None, or any N labels one beyond the range
\* numpy accepts on either side
LabelVals(C) == (-(C + 1))..C
YArgs(N, C) == {None} \cup [1..N -> LabelVals(C)]

\* the reg arguments of a call: 0, 0.1, 0.2, ...
RegArgs == {Rat(k, 10) : k \in 0..MaxReg}

(***************************************************************************)
(* The state: the frame of the current (or last) call, and pc, the index   *)
(* in Program of the statement to execute next (0 when no call runs).      *)
(***************************************************************************)
VARIABLES frame, pc, rng
vars == <<frame, pc, rng>>

\* the caller's objects of a heap
CallerObjs == {"X", "W1", "b1", "W2", "b2"}
CallerHeap(heap) == [o \in CallerObjs |-> heap[o]]

Init ==
  /\ pc = 0
  /\ \E t \in Tapes, sh \in Shapes, boost \in Boosts :
       \E heap \in {InputHeap(t, sh, boost)} :
         /\ ScoresInRange(heap)
         /\ rng = [tape |-> t, pos |-> 0]
         /\ frame = [EnterCall(heap, ModelDict, None, Zero) EXCEPT !.env = <<>>]

\* the caller calls two_layer_net(X, model, y, reg) on its arrays
Call ==
  /\ pc = 0
  /\ frame.ret.kind = "None"
  /\ \E y \in YArgs(Rows(frame.heap["X"].v), Len(frame.heap["b2"].v)), reg \in RegArgs :
       frame' = EnterCall(CallerHeap(frame.heap), frame.model, y, reg)
  /\ pc' = 1
  /\ UNCHANGED rng

\* the caller drops the outcome of the last call; its arrays stay
Discard ==
  /\ pc = 0
  /\ frame.ret.kind # "None"
  /\ frame' = [EnterCall(CallerHeap(frame.heap), frame.model, None, Zero)
                 EXCEPT !.env = <<>>]
  /\ pc' = 0
  /\ UNCHANGED rng

\* the statement at pc is stmt
At(stmt) == pc \in 1..Len(Program) /\ Program[pc] = stmt

\* pc after a statement that left the frame f: a return or an exception ends
\* the call
After(f) == IF f.ret.kind # "None" THEN 0 ELSE pc + 1

DoForward ==
  /\ At("Forward")
  /\ frame' = Forward(frame)
  /\ pc' = After(frame')
  /\ UNCHANGED rng

DoReturnScores ==
  /\ At("ReturnScores")
  /\ frame' = ReturnScores(frame)
  /\ pc' = After(frame')
  /\ UNCHANGED rng

DoSoftmax ==
  /\ At("Softmax")
  /\ frame' = Softmax(frame)
  /\ pc' = After(frame')
  /\ UNCHANGED rng

DoLoss ==
  /\ At("Loss")
  /\ frame' = Loss(frame)
  /\ pc' = After(frame')
  /\ UNCHANGED rng

DoDscores ==
  /\ At("Dscores")
  /\ frame' = Dscores(frame)
  /\ pc' = After(frame')
  /\ UNCHANGED rng

DoBackpropW2 ==
  /\ At("BackpropW2")
  /\ frame' = BackpropW2(frame)
  /\ pc' = After(frame')
  /\ UNCHANGED rng

DoBackpropHidden ==
  /\ At("BackpropHidden")
  /\ frame' = BackpropHidden(frame)
  /\ pc' = After(frame')
  /\ UNCHANGED rng

DoBackpropW1 ==
  /\ At("BackpropW1")
  /\ frame' = BackpropW1(frame)
  /\ pc' = After(frame')
  /\ UNCHANGED rng

DoRegularize ==
  /\ At("Regularize")
  /\ frame' = Regularize(frame)
  /\ pc' = After(frame')
  /\ UNCHANGED rng

DoReturnLossGrads ==
  /\ At("ReturnLossGrads")
  /\ frame' = ReturnLossGrads(frame)
  /\ pc' = After(frame')
  /\ UNCHANGED rng

Next ==
  \/ Call
  \/ Discard
  \/ DoForward
  \/ DoReturnScores
  \/ DoSoftmax
  \/ DoLoss
  \/ DoDscores
  \/ DoBackpropW2
  \/ DoBackpropHidden
  \/ DoBackpropW1
  \/ DoRegularize
  \/ DoReturnLossGrads

Spec == Init /\ [][Next]_vars

(***************************************************************************)
(* init_two_layer_model.  np.random.randn(r, c) takes r*c draws from the   *)
(* random stream, row by row; a draw z gives the weight 0.00001 * z.       *)
(***************************************************************************)
\* the k-th next draw of the stream
Draw(k) == TapeAt(rng.tape, rng.pos + k)

\* np.random.randn(r, c), after `used` draws of the same call
Randn(used, r, c) == [i \in 1..r |-> [j \in 1..c |-> Draw(used + (i - 1) * c + (j - 1))]]

\* np.zeros(n)
Zeros(n) == [j \in 1..n |-> Zero]

\* model['W1'] = 0.00001 * np.random.randn(input_size, hidden_size)
InitW1(input_size, hidden_size) ==
  Mat(Scale(Rat(1, 100000), Randn(0, input_size, hidden_size)))

\* a bug: b1 drawn like the weights, 0.00001 * np.random.randn(hidden_size)
InitB1Random(hidden_size) ==
  Vec([j \in 1..hidden_size |-> Mul(Rat(1, 100000), Draw(j - 1))])

\* model['b1'] = np.zeros(hidden_size)
InitB1(hidden_size) == Vec(Zeros(hidden_size))

\* model['W2'] = 0.00001 * np.random.randn(hidden_size, output_size)
InitW2(input_size, hidden_size, output_size) ==
  Mat(Scale(Rat(1, 100000), Randn(input_size * hidden_size, hidden_size, output_size)))

\* model['b2'] = np.zeros(output_size)
InitB2(output_size) == Vec(Zeros(output_size))

\* the dictionary init_two_layer_model returns: each key with its new array
init_two_layer_model(input_size, hidden_size, output_size) ==
  [W1 |-> InitW1(input_size, hidden_size),
   b1 |-> InitB1(hidden_size),
   W2 |-> InitW2(input_size, hidden_size, output_size),
   b2 |-> InitB2(output_size)]

\* in InitSpec, frame is the frame of the last call of init_two_layer_model:
\* its arguments and the dictionary it returned
InitStart ==
  /\ pc = 0
  /\ \E t \in Tapes : rng = [tape |-> t, pos |-> 0]
  /\ frame = [input_size |-> 0, hidden_size |-> 0, output_size |-> 0, ret |-> NoReturn]

\* the caller calls init_two_layer_model(D, H, C); the call consumes its draws
InitModel ==
  /\ pc = 0
  /\ \E D \in 1..MaxD, H \in 1..MaxH, C \in 1..MaxC :
       /\ frame' = [input_size |-> D, hidden_size |-> H, output_size |-> C,
                    ret |-> [kind |-> "model", model |-> init_two_layer_model(D, H, C)]]
       /\ rng' = [rng EXCEPT !.pos = (rng.pos + D * H + H * C) % MaxTape]
  /\ pc' = 0

InitNext == InitModel

InitSpec == InitStart /\ [][InitNext]_vars

(***************************************************************************)
(* Properties of two_layer_net, checked under Spec                         *)
(***************************************************************************)
\* the last call has returned or raised
Returned == pc = 0 /\ frame.ret.kind # "None"

\* the last call ran in inference mode (no labels) / in training mode
Inference == frame.y = None
Training == frame.y # None

\* the caller's arrays and the sizes they fix
ArgX == frame.heap["X"].v
ArgW1 == frame.heap["W1"].v
ArgB1 == frame.heap["b1"].v
ArgW2 == frame.heap["W2"].v
ArgB2 == frame.heap["b2"].v
SizeN == Rows(ArgX)
SizeD == Cols(ArgX)
SizeH == Len(ArgB1)
SizeC == Len(ArgB2)

\* the objects a training call allocates
TrainingObjs ==
  {"cross_entropy_loss", "class_probs", "dW2", "db2", "dHidden", "dW1", "db1"}

\* sum over d of X[i,d] * W1[d,h] + b1[h]
PreActivation(i, h) ==
  Add(SumSeq([d \in 1..SizeD |-> Mul(ArgX[i][d], ArgW1[d][h])]), ArgB1[h])

\* sum over h of max(0, pre-activation) * W2[h,c] + b2[c]
ScoreAt(i, c) ==
  Add(SumSeq([h \in 1..SizeH |-> Mul(Max0(PreActivation(i, h)), ArgW2[h][c])]), ArgB2[c])

\* C1: a call without labels returns only the scores matrix, of shape (N,C), with
\* scores[i,c] = sum_h max(0, sum_d X[i,d]*W1[d,h] + b1[h]) * W2[h,c] + b2[c];
\* it computes no loss and allocates no softmax or gradient array, and every
\* value of reg gives the same result.
C1_InferenceScores ==
  (Returned /\ Inference) =>
    /\ frame.ret.kind = "scores"
    /\ DOMAIN frame.ret = {"kind", "scores"}
    /\ Shape(frame.ret.scores) = <<SizeN, SizeC>>
    /\ \A i \in 1..SizeN : \A c \in 1..SizeC : frame.ret.scores.v[i][c] = ScoreAt(i, c)
    /\ frame.loss = None
    /\ DOMAIN frame.heap \cap TrainingObjs = {}
    /\ \A r \in RegArgs :
         two_layer_net(CallerHeap(frame.heap), frame.model, None, r).ret = frame.ret

\* C1 witness: an inference call with reg # 0 has returned, and the ReLU has
\* clipped a negative pre-activation
C1_Witness ==
  /\ Returned
  /\ Inference
  /\ frame.reg # Zero
  /\ \E i \in 1..SizeN : \E h \in 1..SizeH : PreActivation(i, h)[1] < 0

\* C2: no step of two_layer_net, in either mode and for any reg, changes the
\* contents of the caller's arrays X, W1, b1, W2, b2.
C2_CallerArraysUnchanged == [][CallerHeap(frame'.heap) = CallerHeap(frame.heap)]_vars

\* C2 witness: a training call with reg # 0 has run all its in-place updates
\* (label entries, division by N, ReLU gate, reg * W), each changing a value
C2_Witness ==
  /\ Returned
  /\ frame.ret.kind = "loss_grads"
  /\ frame.reg # Zero
  /\ \E i \in 1..SizeN : \E h \in 1..SizeH : PreActivation(i, h)[1] < 0
  /\ \E h \in 1..SizeH : \E c \in 1..SizeC : ArgW2[h][c] # Zero
  /\ SizeN > 1

\* the labels of the call, and the column numpy's indexing gives label i
LabelsIn(lo, hi) == \A i \in 1..Len(frame.y) : lo <= frame.y[i] /\ frame.y[i] < hi
ValidLabels == Training /\ LabelsIn(0, SizeC)
LabelCol(i) == ColumnOf(frame.y[i], SizeC)

\* the call of the same arguments with another y or another reg
SameCall(y, reg) == two_layer_net(CallerHeap(frame.heap), frame.model, y, reg)

\* C3 as claimed: in training mode any label < 0 or >= C makes the call fail
\* with an IndexError.
C3_Original ==
  (Returned /\ Training /\ ~LabelsIn(0, SizeC)) =>
    frame.ret = [kind |-> "raise", exc |-> "IndexError"]

\* C3 as amended: in training mode a label y[i] >= C or y[i] < -C makes the call
\* fail with an IndexError, and no loss is computed and no gradient returned;
\* with every label in [-C, C) the call returns a loss and gradients, those of
\* the call with each label y[i] replaced by y[i] mod C.
C3_LabelOutOfRange ==
  (Returned /\ Training) =>
    IF ~LabelsIn(-SizeC, SizeC)
    THEN /\ frame.ret = [kind |-> "raise", exc |-> "IndexError"]
         /\ frame.loss = None
         /\ DOMAIN frame.heap \cap {"dW2", "db2", "dHidden", "dW1", "db1"} = {}
    ELSE /\ frame.ret.kind = "loss_grads"
         /\ frame.ret = SameCall([i \in 1..Len(frame.y) |-> frame.y[i] % SizeC],
                                 frame.reg).ret

\* C3 witness: a training call with a label >= C has raised
C3_Witness ==
  /\ Returned
  /\ Training
  /\ \E i \in 1..Len(frame.y) : frame.y[i] >= SizeC
  /\ frame.ret.kind = "raise"

\* sum of squares of W1 plus sum of squares of W2, times 0.5 * reg
SumSq(W) == SumAll(MulMat(W, W))
RegTerm(reg) == Mul(Mul(Half, reg), Add(SumSq(ArgW1), SumSq(ArgW2)))

\* a > b for two losses of one data term
LGreater(a, b) ==
  /\ IsFinite(a.rat)
  /\ IsFinite(b.rat)
  /\ a.logs = b.logs
  /\ a.div = b.div
  /\ ~LeqFin(a.rat, b.rat)

C5_LossNonNegative ==
  (Returned /\ ValidLabels /\ frame.ret.kind = "loss_grads") => LNonNeg(frame.ret.loss)

\* C6: a training call with valid labels returns gradients under exactly the keys
\* W1, b1, W2, b2, each of the shape of the parameter of its key: (D,H), (H),
\* (H,C), (C); also for N = 1.
C6_GradientShapes ==
  (Returned /\ ValidLabels) =>
    /\ frame.ret.kind = "loss_grads"
    /\ DOMAIN frame.ret.grads = {"W1", "b1", "W2", "b2"}
    /\ DOMAIN frame.ret.grads = DOMAIN frame.model
    /\ \A k \in DOMAIN frame.model :
         Shape(frame.ret.grads[k]) = Shape(frame.heap[frame.model[k]])
    /\ Shape(frame.ret.grads.W1) = <<SizeD, SizeH>>
    /\ Shape(frame.ret.grads.b1) = <<SizeH>>
    /\ Shape(frame.ret.grads.W2) = <<SizeH, SizeC>>
    /\ Shape(frame.ret.grads.b2) = <<SizeC>>

\* C6 witness: a single-sample training call with H # C has returned gradients
C6_Witness ==
  /\ Returned
  /\ ValidLabels
  /\ SizeN = 1
  /\ SizeH # SizeC
  /\ frame.ret.kind = "loss_grads"

\* the pre-activations and the scores of the call, as matrices
PreMatrix == [i \in 1..SizeN |-> [h \in 1..SizeH |-> PreActivation(i, h)]]
ScoreMatrix == [i \in 1..SizeN |-> [c \in 1..SizeC |-> ScoreAt(i, c)]]

\* the softmax probabilities of a score matrix: exp of each score over the sum of
\* the exps of its row
SoftmaxOf(sc) ==
  [i \in 1..SizeN |-> [c \in 1..SizeC |->
     Div(Exp(sc[i][c]), SumSeq([k \in 1..SizeC |-> Exp(sc[i][k])]))]]

\* the softmax probability matrix P of the call
RefPMatrix == CHOOSE P \in {SoftmaxOf(sc) : sc \in {ScoreMatrix}} : TRUE

\* the reference backward pass of the claim, from P and the pre-activations
RefDScores(P) ==
  [i \in 1..SizeN |-> [c \in 1..SizeC |->
     Div(Sub(P[i][c], IF c = LabelCol(i) THEN One ELSE Zero), OfInt(SizeN))]]

RefDb2(ds) == [c \in 1..SizeC |-> SumSeq([i \in 1..SizeN |-> ds[i][c]])]

RefDW2(ds, pre) ==
  [h \in 1..SizeH |-> [c \in 1..SizeC |->
     Add(SumSeq([i \in 1..SizeN |-> Mul(Max0(pre[i][h]), ds[i][c])]),
         Mul(frame.reg, ArgW2[h][c]))]]

\* dScores W2^T, before the gate
RefUngated(ds, i, h) == SumSeq([c \in 1..SizeC |-> Mul(ds[i][c], ArgW2[h][c])])

RefDHidden(ds, pre) ==
  [i \in 1..SizeN |-> [h \in 1..SizeH |->
     IF LeqZero(pre[i][h]) THEN Zero ELSE RefUngated(ds, i, h)]]

RefDb1(dh) == [h \in 1..SizeH |-> SumSeq([i \in 1..SizeN |-> dh[i][h]])]

RefDW1(dh) ==
  [d \in 1..SizeD |-> [h \in 1..SizeH |->
     Add(SumSeq([i \in 1..SizeN |-> Mul(ArgX[i][d], dh[i][h])]),
         Mul(frame.reg, ArgW1[d][h]))]]

\* C8: the gradients a training call returns are those of the reference backward
\* pass on the softmax probabilities P: dScores = (P - 1 at the label) / N,
\* db2 = column sums, dW2 = hidden^T dScores + reg W2, dHidden = dScores W2^T
\* zeroed where the pre-activation is <= 0, db1 = column sums,
\* dW1 = X^T dHidden + reg W1.
C8_GradientsMatchReference ==
  (Returned /\ frame.ret.kind = "loss_grads") =>
    \A pre \in {PreMatrix} : \A ds \in {RefDScores(RefPMatrix)} :
      \A dh \in {RefDHidden(ds, pre)} :
        /\ Val(frame, "dscores") = ds
        /\ frame.ret.grads.b2.v = RefDb2(ds)
        /\ frame.ret.grads.W2.v = RefDW2(ds, pre)
        /\ Val(frame, "dHidden") = dh
        /\ frame.ret.grads.b1.v = RefDb1(dh)
        /\ frame.ret.grads.W1.v = RefDW1(dh)

\* C8 witness: gradients were returned where the gate has zeroed a nonzero entry of
\* dScores W2^T at a pre-activation of exactly 0
C8_Witness ==
  /\ Returned
  /\ ValidLabels
  /\ frame.ret.kind = "loss_grads"
  /\ \E i \in 1..SizeN : \E h \in 1..SizeH :
       /\ PreActivation(i, h) = Zero
       /\ RefUngated(RefDScores(RefPMatrix), i, h) # Zero

\* the loss from the unmodified probabilities P: the mean over i of
\* -log P[i, y[i]], plus the regularization term
RefLoss(P) ==
  LAddRat(LDivInt(LSum([i \in 1..SizeN |-> NegLog(P[i][LabelCol(i)])]), SizeN),
          RegTerm(frame.reg))

\* C9: dscores is the object class_probs, updated in place only after the loss
\* has read it: until the loss is computed class_probs holds the softmax
\* probabilities, dscores is bound only once the loss is computed, and the loss
\* (local, and returned) is the mean of -log P[i, y[i]] over the unmodified P plus
\* the regularization term.
C9_LossBeforeInPlaceUpdate ==
  "class_probs" \in DOMAIN frame.heap =>
    \A P \in {RefPMatrix} :
      /\ frame.loss = None => frame.heap["class_probs"].v = P
      /\ "dscores" \in DOMAIN frame.env
           => (frame.env["dscores"] = frame.env["class_probs"] /\ frame.loss # None)
      /\ frame.loss # None => frame.loss = RefLoss(P)
      /\ (Returned /\ frame.ret.kind = "loss_grads") => frame.ret.loss = RefLoss(P)

\* C9 witness: a loss was returned after the in-place updates changed class_probs
C9_Witness ==
  /\ Returned
  /\ ValidLabels
  /\ frame.ret.kind = "loss_grads"
  /\ frame.ret.loss.logs # <<>>
  /\ frame.env["dscores"] = "class_probs"
  /\ frame.heap["class_probs"].v # RefPMatrix

\* C10: with valid labels each row of dScores sums to zero, and so do the entries
\* of db2.
C10_RowsSumToZero ==
  (Returned /\ ValidLabels /\ frame.ret.kind = "loss_grads") =>
    /\ \A i \in 1..SizeN : SumSeq(Val(frame, "dscores")[i]) = Zero
    /\ SumSeq(frame.ret.grads.b2.v) = Zero

(***************************************************************************)
(* Properties of init_two_layer_model, checked under InitSpec              *)
(***************************************************************************)
\* C7: init_two_layer_model(D, H, C) returns exactly the keys W1, b1, W2, b2, of
\* shapes (D,H), (H), (H,C), (C), with every entry of b1 and of b2 zero.
C7_InitShapes ==
  frame.ret.kind = "model" =>
    /\ DOMAIN frame.ret.model = {"W1", "b1", "W2", "b2"}
    /\ Shape(frame.ret.model.W1) = <<frame.input_size, frame.hidden_size>>
    /\ Shape(frame.ret.model.b1) = <<frame.hidden_size>>
    /\ Shape(frame.ret.model.W2) = <<frame.hidden_size, frame.output_size>>
    /\ Shape(frame.ret.model.b2) = <<frame.output_size>>
    /\ \A j \in 1..Len(frame.ret.model.b1.v) : frame.ret.model.b1.v[j] = Zero
    /\ \A j \in 1..Len(frame.ret.model.b2.v) : frame.ret.model.b2.v[j] = Zero

\* C7 witness: a model of three different sizes was returned, with a nonzero weight
C7_Witness ==
  /\ frame.ret.kind = "model"
  /\ frame.input_size # frame.hidden_size
  /\ frame.ret.model.W1.v[1][1] # Zero

====
